---- MODULE Spec2Model ----
(***************************************************************************)
(* Model of the PromptLayer RunAgent n8n node                              *)
(* (src/nodes/RunAgent/PromptLayerRunAgent.node.ts).                       *)
(*                                                                         *)
(* execute() is modelled as a sequential process whose control points are  *)
(* the top of the for loop, the two awaits on HTTP requests, the top of    *)
(* the polling while loop and the await on sleep(5000).                    *)
(***************************************************************************)
EXTENDS Integers, Sequences, FiniteSets, TLC

(***************************************************************************)
(* Bounds of the model                                                     *)
(***************************************************************************)
\* largest number of input items of one run
MaxItems == 2
\* largest number of pages of the agent listing
MaxPages == 3

(***************************************************************************)
(* JavaScript values.  A value is a record tagged with its type, so that   *)
(* undefined, null, 0, '' and false stay distinct and truthiness is        *)
(* computed as JavaScript computes it.                                     *)
(***************************************************************************)
Undefined == [t |-> "undefined"]
Null == [t |-> "null"]
Num(n) == [t |-> "number", v |-> n]
Str(s) == [t |-> "string", v |-> s]
Bool(b) == [t |-> "boolean", v |-> b]

\* ToBoolean of the ECMAScript specification, for the value types above
Truthy(x) ==
    CASE x.t = "undefined" -> FALSE
      [] x.t = "null" -> FALSE
      [] x.t = "number" -> x.v # 0
      [] x.t = "string" -> x.v # ""
      [] x.t = "boolean" -> x.v
      [] OTHER -> TRUE

\* Number(x) for the values the version parameter can take
ToNumber(x) ==
    CASE x.t = "null" -> 0
      [] x.t = "number" -> x.v
      [] x.t = "string" /\ x.v = "" -> 0
      [] x.t = "boolean" -> IF x.v THEN 1 ELSE 0

\* x || false
OrFalse(x) == IF Truthy(x) THEN x ELSE Bool(FALSE)

(***************************************************************************)
(* JSON texts a user can type into the json-typed fields, and JSON.parse.  *)
(***************************************************************************)
JsonTexts == {"{}", "{\"location\":\"London\"}", "{oops"}

JSONValid(s) == s \in {"{}", "{\"location\":\"London\"}"}

JSONParse(s) ==
    CASE s = "{}" -> [t |-> "object", keys |-> {}]
      [] s = "{\"location\":\"London\"}" -> [t |-> "object", keys |-> {"location"}]

(***************************************************************************)
(* Program constants                                                       *)
(***************************************************************************)
SleepMs == 5000
MinuteMs == 60000
DefaultTimeoutMinutes == 10

(***************************************************************************)
(* The environment: parameter values of an item and server responses.      *)
(***************************************************************************)
\* getNodeParameter('agentVersionNumber', i, null)
VersionParams == {Null, Str(""), Num(0), Num(3)}
\* getNodeParameter('agentLabelName', i, '')
LabelParams == {Str(""), Str("prod")}
MetadataParams == {Undefined, Str(""), Str("{}"), Str("{oops")}
ReturnAllParams == {Undefined, Bool(FALSE), Bool(TRUE)}
TimeoutParams == {Undefined, Num(1)}

AdditionalFieldsSet ==
    [metadata : MetadataParams, returnAllOutputs : ReturnAllParams,
     timeout : TimeoutParams]

\* the time an HTTP request can take, in milliseconds
Latencies == {0, 295000}

\* responses of POST /workflows/{name}/run
PostResponses ==
    {[workflow_version_execution_id |-> Undefined],
     [workflow_version_execution_id |-> Num(0)],
     [workflow_version_execution_id |-> Num(7)]}

\* full responses of GET /workflow-version-execution-results
\* (statusMessage is the reason phrase of the response; HTTP/2 has none and
\* HTTP/1.1 servers may send any text or none)
Bodies == {"b1", "b2"}
PollResponses ==
    [statusCode : {200}, statusMessage : {"OK"}, body : Bodies]
    \cup {[statusCode |-> 200, statusMessage |-> "", body |-> "b1"],
          [statusCode |-> 202, statusMessage |-> "Accepted", body |-> "pending"],
          [statusCode |-> 404, statusMessage |-> "Not Found", body |-> "none"]}

TransportError == [message |-> "socket hang up"]

None == [t |-> "none"]

\* the raw parameter values getNodeParameter returns for one item
ParameterSets ==
    [useAgentLabel : {Bool(TRUE), Bool(FALSE)}, agentVersionNumber : VersionParams,
     agentLabelName : LabelParams, inputVariables : JsonTexts,
     additionalFields : AdditionalFieldsSet]

VARIABLES
    pc,                \* control point of execute()
    items,             \* items.length
    continueOnFail,    \* this.continueOnFail()
    i,                 \* index of the for loop
    returnData,        \* returnData
    params,            \* the parameter values read for item i
    additionalFields,  \* additionalFields of item i
    response,          \* response of the POST of item i
    execId,            \* execId of item i
    startTime,         \* startTime of item i
    timeoutMs,         \* timeoutMs of item i
    now,               \* Date.now()
    inflight,          \* the HTTP request execute() is awaiting
    pollResponse,      \* the last pollResponse of item i
    posts,             \* POST requests issued for item i
    gets,              \* GET requests issued for item i
    sleeps,            \* sleep(5000) calls started for item i
    outcomes,          \* how each item processed so far ended, in order
    thrown,            \* the error execute() raised to its caller
    output,            \* the list execute() returned
    listing,           \* the pages of GET /workflows the server holds
    listPc,            \* control point of getWorkflows()
    page,              \* page of getWorkflows()
    hasNext,           \* hasNext of getWorkflows()
    listReturnData,    \* returnData of getWorkflows()
    listInflight,      \* the query string of the GET getWorkflows() awaits
    requested          \* the page numbers requested so far, in order

vars == <<pc, items, continueOnFail, i, returnData, params, additionalFields,
          response, execId, startTime, timeoutMs, now, inflight, pollResponse,
          posts, gets, sleeps, outcomes, thrown, output, listing, listPc, page,
          hasNext, listReturnData, listInflight, requested>>

execVars == <<pc, items, continueOnFail, i, returnData, params,
              additionalFields, response, execId, startTime, timeoutMs, now,
              inflight, pollResponse, posts, gets, sleeps, outcomes, thrown,
              output>>

listVars == <<listing, listPc, page, hasNext, listReturnData, listInflight,
              requested>>

\* getWorkflows() is not running
ListIdle ==
    /\ listing = <<>>
    /\ listPc = "idle"
    /\ page = 1
    /\ hasNext = TRUE
    /\ listReturnData = <<>>
    /\ listInflight = None
    /\ requested = <<>>

\* the variables of execute() other than pc, items and continueOnFail, before
\* the first iteration
ExecStart ==
    /\ i = 0
    /\ returnData = <<>>
    /\ params = None
    /\ additionalFields = None
    /\ response = None
    /\ execId = Undefined
    /\ startTime = 0
    /\ timeoutMs = 0
    /\ now = 0
    /\ inflight = None
    /\ pollResponse = None
    /\ posts = 0
    /\ gets = 0
    /\ sleeps = 0
    /\ outcomes = <<>>
    /\ thrown = None
    /\ output = None

\* lines 225-231: execute() is entered
Init ==
    /\ ListIdle
    /\ ExecStart
    /\ pc = "forLoop"
    /\ items \in 0..MaxItems
    /\ continueOnFail \in BOOLEAN

(***************************************************************************)
(* Request builder (lines 234-284)                                         *)
(***************************************************************************)
\* this.getNodeParameter('useAgentLabel', i) === true
UseAgentLabel(raw) == raw = Bool(TRUE)

AgentVersionNumber(useAgentLabel, rawVersion) ==
    IF ~useAgentLabel THEN Num(ToNumber(rawVersion)) ELSE Null

AgentLabelNameAlways(useAgentLabel, rawLabel) == rawLabel

AgentLabelName(useAgentLabel, rawLabel) ==
    IF useAgentLabel THEN rawLabel ELSE Str("")

\* the message of the SyntaxError JSON.parse throws
JSONErrorMessage(s) == "Unexpected token o in JSON at position 1"

MalformedFieldNoMetadataName(inputVariables, fields) ==
    IF ~JSONValid(inputVariables) THEN "Input Variables"
    ELSE IF Truthy(fields.metadata) /\ ~JSONValid(fields.metadata.v)
    THEN "Input Variables"
    ELSE ""

\* the field whose JSON.parse throws first (lines 247-255 and 271-281), ""
\* when none does
MalformedField(inputVariables, fields) ==
    IF ~JSONValid(inputVariables) THEN "Input Variables"
    ELSE IF Truthy(fields.metadata) /\ ~JSONValid(fields.metadata.v)
    THEN "Metadata"
    ELSE ""

\* requestBody as sent; the caller has checked that the JSON texts parse
RequestBody(agentVersionNumber, agentLabelName, inputVariables, fields) ==
    LET b0 == "input_variables" :> JSONParse(inputVariables)
        b1 == IF Truthy(agentVersionNumber)
              THEN ("workflow_version_number" :> agentVersionNumber) @@ b0
              ELSE b0
        b2 == IF Truthy(agentLabelName)
              THEN ("workflow_label_name" :> agentLabelName) @@ b1
              ELSE b1
        b3 == IF Truthy(fields.metadata)
              THEN ("metadata" :> JSONParse(fields.metadata.v)) @@ b2
              ELSE b2
    IN  ("return_all_outputs" :> OrFalse(fields.returnAllOutputs)) @@ b3

\* new NodeOperationError(node, message, { itemIndex })
NodeOperationError(message, itemIndex) ==
    [message |-> message, itemIndex |-> itemIndex]

(***************************************************************************)
(* End of an iteration of the for loop (lines 357-377)                     *)
(***************************************************************************)
\* the block-scoped locals of the iteration go out of scope
EndOfIteration ==
    /\ params' = None
    /\ additionalFields' = None
    /\ response' = None
    /\ execId' = Undefined
    /\ startTime' = 0
    /\ timeoutMs' = 0
    /\ pollResponse' = None
    /\ inflight' = None

NextIterationSkip ==
    /\ i' = i + 2
    /\ pc' = "forLoop"
    /\ posts' = 0
    /\ gets' = 0
    /\ sleeps' = 0
    /\ now' = 0

\* i++: control is back at the top of the for loop.  The request counters
\* are per item, and only Date.now() - startTime is ever read, so the origin
\* of the clock is put at the start of the iteration.
NextIteration ==
    /\ i' = i + 1
    /\ pc' = "forLoop"
    /\ posts' = 0
    /\ gets' = 0
    /\ sleeps' = 0
    /\ now' = 0

\* what is recorded of an item when its iteration ends: the state it ended
\* in and the responses the server gave for it
Outcome(state, post, poll) ==
    [item |-> i, state |-> state, post |-> post, poll |-> poll]

ErrorEntryFirstItem(error, itemIndex) ==
    [error |-> error.message, json |-> [t |-> "object", keys |-> {}],
     pairedItem |-> [item |-> 0]]

\* lines 366-370: the entry pushed for a failed item
ErrorEntry(error, itemIndex) ==
    [error |-> error.message, json |-> [t |-> "object", keys |-> {}],
     pairedItem |-> [item |-> itemIndex]]

ContinueOnFailAlways == TRUE

\* line 365: this.continueOnFail()
ContinueOnFail == continueOnFail

\* catch (error) { ... }, entered from item i with the given error
Catch(error, outcome) ==
    /\ outcomes' = Append(outcomes, outcome)
    /\ EndOfIteration
    /\ IF ContinueOnFail
       THEN /\ returnData' = Append(returnData, ErrorEntry(error, i))
            /\ NextIteration
            /\ UNCHANGED thrown
       ELSE /\ thrown' = NodeOperationError(
                             "Error executing Agent: " \o error.message, i)
            /\ pc' = "thrown"
            /\ UNCHANGED <<i, returnData, posts, gets, sleeps, now>>

\* returnData.push(finalResult)
PushResult(finalResult, outcome) ==
    /\ outcomes' = Append(outcomes, outcome)
    /\ EndOfIteration
    /\ returnData' = Append(returnData, finalResult)
    /\ NextIteration
    /\ UNCHANGED thrown

(***************************************************************************)
(* Steps of execute()                                                      *)
(***************************************************************************)
\* lines 231-243: i < items.length, read the parameters of item i
ReadParameters ==
    /\ UNCHANGED listVars
    /\ pc = "forLoop"
    /\ i < items
    /\ params' \in ParameterSets
    /\ pc' = "build"
    /\ UNCHANGED <<items, continueOnFail, i, returnData, additionalFields,
                   response, execId, startTime, timeoutMs, now, inflight,
                   pollResponse, posts, gets, sleeps, outcomes, thrown, output>>

\* lines 245-303: parse the JSON fields, build the body, issue the POST
BuildAndSubmit ==
    /\ UNCHANGED listVars
    /\ pc = "build"
    /\ UNCHANGED <<items, continueOnFail, output>>
    /\ LET useAgentLabel == UseAgentLabel(params.useAgentLabel)
           agentVersionNumber ==
               AgentVersionNumber(useAgentLabel, params.agentVersionNumber)
           agentLabelName == AgentLabelName(useAgentLabel, params.agentLabelName)
           fields == params.additionalFields
           malformed == MalformedField(params.inputVariables, fields)
       IN  IF malformed # ""
           THEN Catch(NodeOperationError(
                        "Invalid JSON in " \o malformed \o ": "
                            \o JSONErrorMessage(
                                   IF malformed = "Metadata"
                                   THEN fields.metadata.v
                                   ELSE params.inputVariables), i),
                      Outcome("MalformedInput", None, None))
           ELSE /\ inflight' = [method |-> "POST", item |-> i,
                                body |-> RequestBody(agentVersionNumber,
                                            agentLabelName,
                                            params.inputVariables, fields)]
                /\ additionalFields' = fields
                \* the other parameter values are not read again
                /\ params' = None
                /\ posts' = posts + 1
                /\ pc' = "awaitPost"
                /\ UNCHANGED <<i, returnData, response, execId,
                               startTime, timeoutMs, now, pollResponse, gets,
                               sleeps, outcomes, thrown>>

\* additionalFields.timeout !== undefined ? Number(additionalFields.timeout) : 10
TimeoutMinutes(fields) ==
    IF fields.timeout # Undefined THEN ToNumber(fields.timeout)
    ELSE DefaultTimeoutMinutes

MissingExecIdNever(r) == FALSE

\* !execId, with execId = response.workflow_version_execution_id
MissingExecId(r) == ~Truthy(r.workflow_version_execution_id)

\* lines 299-303: the POST rejects (transport or HTTP failure)
PostRejects ==
    /\ UNCHANGED listVars
    /\ pc = "awaitPost"
    /\ UNCHANGED <<items, continueOnFail, output>>
    /\ Catch(TransportError, Outcome("TransportError", None, None))

\* lines 299-320: the POST resolves with a response
PostResolves ==
    /\ UNCHANGED listVars
    /\ pc = "awaitPost"
    /\ UNCHANGED <<items, continueOnFail, output>>
    /\ \E r \in PostResponses :
         IF MissingExecId(r)
         THEN Catch(NodeOperationError(
                      "Missing workflow_version_execution_id in response", i),
                    Outcome("MissingExecutionId", r, None))
         ELSE /\ response' = r
              /\ execId' = r.workflow_version_execution_id
              /\ startTime' = now
              /\ timeoutMs' = TimeoutMinutes(additionalFields) * MinuteMs
              /\ inflight' = None
              /\ pc' = "whileLoop"
              /\ UNCHANGED <<i, returnData, params, additionalFields, now,
                             pollResponse, posts, gets, sleeps, outcomes,
                             thrown>>

\* lines 299-320: the POST resolves or rejects
PostResponse == PostRejects \/ PostResolves

LoopConditionInclusive == now - startTime <= timeoutMs

LoopConditionNoBudget == TRUE

\* while (Date.now() - startTime < timeoutMs)
LoopCondition == now - startTime < timeoutMs

\* lines 322-340 and 357-361: test the loop condition, issue the GET or time out
WhileLoop ==
    /\ UNCHANGED listVars
    /\ pc = "whileLoop"
    /\ UNCHANGED <<items, continueOnFail, output>>
    /\ IF LoopCondition
       THEN /\ inflight' = [method |-> "GET", item |-> i,
                            qs |-> [workflow_version_execution_id |-> execId,
                                    return_all_outputs |->
                                        OrFalse(additionalFields.returnAllOutputs)]]
            /\ gets' = gets + 1
            /\ pc' = "awaitGet"
            /\ UNCHANGED <<i, returnData, params, additionalFields, response,
                           execId, startTime, timeoutMs, now, pollResponse,
                           posts, sleeps, outcomes, thrown>>
       ELSE \* finalResult is undefined here
            Catch(NodeOperationError("Execution timed out after 10 minutes", i),
                  Outcome("TimedOut", response, pollResponse))

\* statusCode === 200 && pollResponse.statusMessage === 'OK'
IsCompleted(r) == r.statusCode = 200 /\ r.statusMessage = "OK"

IsPendingNot200(r) == r.statusCode # 200

\* statusCode === 202
IsPending(r) == r.statusCode = 202

\* lines 336-340: the GET rejects (transport failure)
PollRejects ==
    /\ UNCHANGED listVars
    /\ pc = "awaitGet"
    /\ UNCHANGED <<items, continueOnFail, output>>
    /\ Catch(TransportError, Outcome("TransportError", response, pollResponse))

\* lines 336-355 and 363: the GET resolves with a response
PollResolves ==
    /\ UNCHANGED listVars
    /\ pc = "awaitGet"
    /\ UNCHANGED <<items, continueOnFail, output>>
    /\ \E r \in PollResponses, latency \in Latencies :
         IF IsCompleted(r)
         THEN PushResult([body |-> r.body], Outcome("Completed", response, r))
         ELSE IF IsPending(r)
         THEN /\ pollResponse' = r
              /\ now' = now + latency
              /\ sleeps' = sleeps + 1
              /\ inflight' = None
              /\ pc' = "sleep"
              /\ UNCHANGED <<i, returnData, params, additionalFields,
                             response, execId, startTime, timeoutMs, posts,
                             gets, outcomes, thrown>>
         ELSE Catch(NodeOperationError(
                      "Unexpected status code " \o ToString(r.statusCode), i),
                    Outcome("Failed", response, r))

\* lines 336-355 and 363: the GET resolves or rejects
PollResponse == PollRejects \/ PollResolves

\* await sleep(5000) resolves
Sleep ==
    /\ UNCHANGED listVars
    /\ pc = "sleep"
    /\ now' = now + SleepMs
    /\ pc' = "whileLoop"
    /\ UNCHANGED <<items, continueOnFail, i, returnData, params,
                   additionalFields, response, execId, startTime, timeoutMs,
                   inflight, pollResponse, posts, gets, sleeps, outcomes,
                   thrown, output>>

\* this.helpers.returnJsonArray(returnData) of n8n: an entry that has a json
\* key is kept, any other entry d becomes { json: d }
ReturnJsonArray(data) ==
    [j \in 1..Len(data) |->
        IF "json" \in DOMAIN data[j] THEN data[j] ELSE [json |-> data[j]]]

\* line 379: the for loop is over
Return ==
    /\ UNCHANGED listVars
    /\ pc = "forLoop"
    /\ ~(i < items)
    \* the node has one output, main
    /\ output' = [main |-> ReturnJsonArray(returnData)]
    /\ pc' = "returned"
    /\ UNCHANGED <<items, continueOnFail, i, returnData, params,
                   additionalFields, response, execId, startTime, timeoutMs, now,
                   inflight, pollResponse, posts, gets, sleeps, outcomes,
                   thrown>>

Next ==
    \/ ReadParameters
    \/ BuildAndSubmit
    \/ PostResponse
    \/ WhileLoop
    \/ PollResponse
    \/ Sleep
    \/ Return

Spec == Init /\ [][Next]_vars

\* execute() when every HTTP request returns a response
NextLive ==
    \/ ReadParameters
    \/ BuildAndSubmit
    \/ PostResolves
    \/ WhileLoop
    \/ PollResolves
    \/ Sleep
    \/ Return

\* The event loop runs the continuation of every settled promise: a step
\* that can be taken is eventually taken.
SpecLive == Init /\ [][NextLive]_vars /\ WF_vars(NextLive)

(***************************************************************************)
(* RunAgent.execute (RunAgent.node.ts): the earlier variant of the node.   *)
(* It reads other parameters, builds the body differently, polls against   *)
(* a fixed budget of 10 minutes and prefixes a raised error differently;   *)
(* the polling loop is otherwise the same code.                            *)
(***************************************************************************)
\* getNodeParameter('workflowVersionNumber', i): a string field, default ''
WorkflowVersionParams == {Str(""), Str("3")}
\* additionalFields.workflowLabelName: unset, or a string
WorkflowLabelParams == {Undefined, Str(""), Str("prod")}

RunAgentAdditionalFieldsSet ==
    [metadata : MetadataParams, returnAllOutputs : ReturnAllParams,
     workflowLabelName : WorkflowLabelParams]

\* the raw parameter values getNodeParameter returns for one item
RunAgentParameterSets ==
    [workflowVersionNumber : WorkflowVersionParams, inputVariables : JsonTexts,
     additionalFields : RunAgentAdditionalFieldsSet]

\* requestBody as sent; the caller has checked that the JSON texts parse
RunAgentRequestBody(workflowVersionNumber, inputVariables, fields) ==
    LET b0 == "input_variables" :> JSONParse(inputVariables)
        b1 == IF Truthy(workflowVersionNumber)
              THEN ("workflow_version_number" :> workflowVersionNumber) @@ b0
              ELSE b0
        b2 == IF Truthy(fields.metadata)
              THEN ("metadata" :> JSONParse(fields.metadata.v)) @@ b1
              ELSE b1
        b3 == IF Truthy(fields.returnAllOutputs)
              THEN ("return_all_outputs" :> fields.returnAllOutputs) @@ b2
              ELSE b2
    IN  IF Truthy(fields.workflowLabelName)
        THEN ("workflow_label_name" :> fields.workflowLabelName) @@ b3
        ELSE b3

\* catch (error) { ... }, entered from item i with the given error
RunAgentCatch(error, outcome) ==
    /\ outcomes' = Append(outcomes, outcome)
    /\ EndOfIteration
    /\ IF ContinueOnFail
       THEN /\ returnData' = Append(returnData, ErrorEntry(error, i))
            /\ NextIteration
            /\ UNCHANGED thrown
       ELSE /\ thrown' = NodeOperationError(
                             "Error executing workflow: " \o error.message, i)
            /\ pc' = "thrown"
            /\ UNCHANGED <<i, returnData, posts, gets, sleeps, now>>

\* i < items.length, read the parameters of item i
RunAgentReadParameters ==
    /\ UNCHANGED listVars
    /\ pc = "forLoop"
    /\ i < items
    /\ params' \in RunAgentParameterSets
    /\ pc' = "build"
    /\ UNCHANGED <<items, continueOnFail, i, returnData, additionalFields,
                   response, execId, startTime, timeoutMs, now, inflight,
                   pollResponse, posts, gets, sleeps, outcomes, thrown, output>>

\* parse the JSON fields, build the body, issue the POST
RunAgentBuildAndSubmit ==
    /\ UNCHANGED listVars
    /\ pc = "build"
    /\ UNCHANGED <<items, continueOnFail, output>>
    /\ LET fields == params.additionalFields
           malformed == MalformedField(params.inputVariables, fields)
       IN  IF malformed # ""
           THEN RunAgentCatch(NodeOperationError(
                        "Invalid JSON in " \o malformed \o ": "
                            \o JSONErrorMessage(
                                   IF malformed = "Metadata"
                                   THEN fields.metadata.v
                                   ELSE params.inputVariables), i),
                      Outcome("MalformedInput", None, None))
           ELSE /\ inflight' = [method |-> "POST", item |-> i,
                                body |-> RunAgentRequestBody(
                                            params.workflowVersionNumber,
                                            params.inputVariables, fields)]
                /\ additionalFields' = fields
                \* the other parameter values are not read again
                /\ params' = None
                /\ posts' = posts + 1
                /\ pc' = "awaitPost"
                /\ UNCHANGED <<i, returnData, response, execId,
                               startTime, timeoutMs, now, pollResponse, gets,
                               sleeps, outcomes, thrown>>

\* the POST rejects (transport or HTTP failure)
RunAgentPostRejects ==
    /\ UNCHANGED listVars
    /\ pc = "awaitPost"
    /\ UNCHANGED <<items, continueOnFail, output>>
    /\ RunAgentCatch(TransportError, Outcome("TransportError", None, None))

\* the POST resolves with a response; timeoutMs = 10 * 60_000
RunAgentPostResolves ==
    /\ UNCHANGED listVars
    /\ pc = "awaitPost"
    /\ UNCHANGED <<items, continueOnFail, output>>
    /\ \E r \in PostResponses :
         IF MissingExecId(r)
         THEN RunAgentCatch(NodeOperationError(
                      "Missing workflow_version_execution_id in response", i),
                    Outcome("MissingExecutionId", r, None))
         ELSE /\ response' = r
              /\ execId' = r.workflow_version_execution_id
              /\ startTime' = now
              /\ timeoutMs' = DefaultTimeoutMinutes * MinuteMs
              /\ inflight' = None
              /\ pc' = "whileLoop"
              /\ UNCHANGED <<i, returnData, params, additionalFields, now,
                             pollResponse, posts, gets, sleeps, outcomes,
                             thrown>>

RunAgentPostResponse == RunAgentPostRejects \/ RunAgentPostResolves

\* test the loop condition, issue the GET or time out
RunAgentWhileLoop ==
    /\ UNCHANGED listVars
    /\ pc = "whileLoop"
    /\ UNCHANGED <<items, continueOnFail, output>>
    /\ IF LoopCondition
       THEN /\ inflight' = [method |-> "GET", item |-> i,
                            qs |-> [workflow_version_execution_id |-> execId,
                                    return_all_outputs |->
                                        OrFalse(additionalFields.returnAllOutputs)]]
            /\ gets' = gets + 1
            /\ pc' = "awaitGet"
            /\ UNCHANGED <<i, returnData, params, additionalFields, response,
                           execId, startTime, timeoutMs, now, pollResponse,
                           posts, sleeps, outcomes, thrown>>
       ELSE \* finalResult is undefined here
            RunAgentCatch(
                NodeOperationError("Execution timed out after 10 minutes", i),
                Outcome("TimedOut", response, pollResponse))

\* the GET rejects (transport failure)
RunAgentPollRejects ==
    /\ UNCHANGED listVars
    /\ pc = "awaitGet"
    /\ UNCHANGED <<items, continueOnFail, output>>
    /\ RunAgentCatch(TransportError,
                     Outcome("TransportError", response, pollResponse))

\* the GET resolves with a response
RunAgentPollResolves ==
    /\ UNCHANGED listVars
    /\ pc = "awaitGet"
    /\ UNCHANGED <<items, continueOnFail, output>>
    /\ \E r \in PollResponses, latency \in Latencies :
         IF IsCompleted(r)
         THEN PushResult([body |-> r.body], Outcome("Completed", response, r))
         ELSE IF IsPending(r)
         THEN /\ pollResponse' = r
              /\ now' = now + latency
              /\ sleeps' = sleeps + 1
              /\ inflight' = None
              /\ pc' = "sleep"
              /\ UNCHANGED <<i, returnData, params, additionalFields,
                             response, execId, startTime, timeoutMs, posts,
                             gets, outcomes, thrown>>
         ELSE RunAgentCatch(NodeOperationError(
                      "Unexpected status code " \o ToString(r.statusCode), i),
                    Outcome("Failed", response, r))

RunAgentPollResponse == RunAgentPollRejects \/ RunAgentPollResolves

\* await new Promise(res => setTimeout(res, 5000)) resolves
RunAgentSleep ==
    /\ UNCHANGED listVars
    /\ pc = "sleep"
    /\ now' = now + SleepMs
    /\ pc' = "whileLoop"
    /\ UNCHANGED <<items, continueOnFail, i, returnData, params,
                   additionalFields, response, execId, startTime, timeoutMs,
                   inflight, pollResponse, posts, gets, sleeps, outcomes,
                   thrown, output>>

\* return [this.helpers.returnJsonArray(returnData)]: the for loop is over
RunAgentReturn ==
    /\ UNCHANGED listVars
    /\ pc = "forLoop"
    /\ ~(i < items)
    /\ output' = [main |-> ReturnJsonArray(returnData)]
    /\ pc' = "returned"
    /\ UNCHANGED <<items, continueOnFail, i, returnData, params,
                   additionalFields, response, execId, startTime, timeoutMs, now,
                   inflight, pollResponse, posts, gets, sleeps, outcomes,
                   thrown>>

NextRunAgent ==
    \/ RunAgentReadParameters
    \/ RunAgentBuildAndSubmit
    \/ RunAgentPostResponse
    \/ RunAgentWhileLoop
    \/ RunAgentPollResponse
    \/ RunAgentSleep
    \/ RunAgentReturn

SpecRunAgent == Init /\ [][NextRunAgent]_vars

(***************************************************************************)
(* getWorkflows (lines 169-204)                                            *)
(***************************************************************************)
PerPage == 100

\* the names the agents of a page can have
PageItems == {<<>>, <<[name |-> "a"]>>, <<[name |-> "b"], [name |-> "a"]>>}

\* The server numbers its pages from 1 upwards, possibly with gaps; every
\* page but the last has has_next = true and the number of the page that
\* follows as next_num (which it may leave out when that is the next
\* integer); the last page has has_next = false and next_num = null.
RECURSIVE ListingsFrom(_, _)
\* the listings of n pages whose first page has number num
ListingsFrom(num, n) ==
    IF n = 1
    THEN {<<[num |-> num, items |-> it, has_next |-> FALSE, next_num |-> Null]>> :
             it \in PageItems}
    ELSE UNION {
           UNION {
             {<<[num |-> num, items |-> it, has_next |-> TRUE, next_num |-> nn]>>
                 \o rest :
                 it \in PageItems,
                 nn \in {Num(num + gap)} \cup (IF gap = 1 THEN {Null} ELSE {})} :
             rest \in ListingsFrom(num + gap, n - 1)} :
           gap \in {1, 2}}

Listings == UNION {ListingsFrom(1, n) : n \in 1..MaxPages}

\* the response of GET /workflows?page=p
ServerResponse(p) ==
    IF \E k \in 1..Len(listing) : listing[k].num = p
    THEN LET k == CHOOSE k \in 1..Len(listing) : listing[k].num = p
         IN  [items |-> listing[k].items, has_next |-> listing[k].has_next,
              next_num |-> listing[k].next_num]
    ELSE [items |-> <<>>, has_next |-> FALSE, next_num |-> Null]

\* execute() is not running
ExecIdle ==
    /\ ExecStart
    /\ pc = "idle"
    /\ items = 0
    /\ continueOnFail = FALSE

\* lines 171-175: getWorkflows() is entered
InitList ==
    /\ ExecIdle
    /\ listing \in Listings
    /\ listPc = "while"
    /\ page = 1
    /\ hasNext = TRUE
    /\ listReturnData = <<>>
    /\ listInflight = None
    /\ requested = <<>>

\* lines 177-192: while (hasNext), issue the GET for the page
ListRequest ==
    /\ listPc = "while"
    /\ hasNext
    /\ listInflight' = [page |-> page, per_page |-> PerPage]
    /\ requested' = Append(requested, page)
    /\ listPc' = "await"
    /\ UNCHANGED <<listing, page, hasNext, listReturnData>>
    /\ UNCHANGED execVars

\* the options pushed for the agents of one page (lines 193-199)
PageOptions(pageItems) ==
    [k \in 1..Len(pageItems) |->
        [name |-> pageItems[k].name, value |-> pageItems[k].name]]

NextPageCounter(r, current) == current + 1

NextPageNoFallback(r, current) ==
    IF Truthy(r.next_num) THEN r.next_num.v ELSE current

\* page = response.next_num || page + 1
NextPage(r, current) ==
    IF Truthy(r.next_num) THEN r.next_num.v ELSE current + 1

\* lines 192-202: the GET resolves
ListResponse ==
    /\ listPc = "await"
    /\ LET r == ServerResponse(listInflight.page)
       IN  /\ listReturnData' = listReturnData \o PageOptions(r.items)
           /\ hasNext' = r.has_next
           /\ page' = NextPage(r, page)
    /\ listInflight' = None
    /\ listPc' = "while"
    /\ UNCHANGED <<listing, requested>>
    /\ UNCHANGED execVars

\* line 192: the GET rejects; getWorkflows() does not catch the error
ListRequestFails ==
    /\ listPc = "await"
    /\ listInflight' = None
    /\ listPc' = "thrown"
    /\ UNCHANGED <<listing, page, hasNext, listReturnData, requested>>
    /\ UNCHANGED execVars

\* line 203: return returnData
ListReturn ==
    /\ listPc = "while"
    /\ ~hasNext
    /\ listPc' = "returned"
    /\ UNCHANGED <<listing, page, hasNext, listReturnData, listInflight,
                   requested>>
    /\ UNCHANGED execVars

NextList ==
    \/ ListRequest
    \/ ListResponse
    \/ ListRequestFails
    \/ ListReturn

SpecList == InitList /\ [][NextList]_vars

(***************************************************************************)
(* Properties                                                              *)
(***************************************************************************)
Last(seq) == seq[Len(seq)]

\* an iteration of the for loop ends in this step
ItemEnds == Len(outcomes') = Len(outcomes) + 1

\* the poll response this step receives (None when the GET is rejected
\* before any response was received)
ReceivedPoll == IF ItemEnds THEN Last(outcomes').poll ELSE pollResponse'

EmptyObject == [t |-> "object", keys |-> {}]

\* the step reports the given message for item i: as an Error entry when
\* failures are tolerated, as the error raised to the caller otherwise
ReportsFailure(message) ==
    IF continueOnFail
    THEN /\ returnData' = Append(returnData,
                              [error |-> message, json |-> EmptyObject,
                               pairedItem |-> [item |-> i]])
         /\ i' = i + 1
         /\ pc' = "forLoop"
         /\ thrown' = None
    ELSE /\ thrown' = [message |-> "Error executing Agent: " \o message,
                       itemIndex |-> i]
         /\ pc' = "thrown"
         /\ returnData' = returnData

\* C1: a poll response with status 200, after k responses with status 202,
\* ends the item with k+1 GETs and k suspensions, and the item's result is
\* the body of that response.
C1_ResultOn200 ==
    [][(pc = "awaitGet" /\ ReceivedPoll # None /\ ReceivedPoll.statusCode = 200)
        => /\ gets = sleeps + 1
           /\ ItemEnds
           /\ Last(outcomes').state = "Completed"
           /\ inflight' = None
           /\ pc' = "forLoop"
           /\ returnData' = Append(returnData, [body |-> ReceivedPoll.body])]_vars

\* C2: a poll response whose status is neither 200 nor 202 fails the item
\* with that status code at once: no suspension, no further request for the
\* item.
C2_UnexpectedStatusIsFatal ==
    [][/\ (pc = "awaitGet" /\ ReceivedPoll # None
              /\ ReceivedPoll.statusCode \notin {200, 202})
          => /\ ItemEnds
             /\ Last(outcomes').state = "Failed"
             /\ Last(outcomes').item = i
             /\ inflight' = None
             /\ pc' # "sleep"
             /\ ReportsFailure("Unexpected status code "
                                  \o ToString(ReceivedPoll.statusCode))
       /\ (inflight' # None => inflight'.item = i')
       /\ i' >= i
       /\ pc \notin {"thrown", "returned"}]_vars

C2_Witness ==
    /\ pc = "thrown"
    /\ Last(outcomes).state = "Failed"
    /\ Last(outcomes).poll.statusCode = 404
    /\ gets >= 2

\* the budget the user configured, in milliseconds
ConfiguredBudget ==
    IF additionalFields.timeout = Undefined THEN 10 * 60000
    ELSE additionalFields.timeout.v * 60000

\* C3: when the loop condition is evaluated with the elapsed time at or over
\* the configured budget (10 minutes when none is configured), no GET is
\* issued and the item ends TimedOut.
C3_TimedOutAtBudget ==
    [][(pc = "whileLoop" /\ now - startTime >= ConfiguredBudget)
        => /\ ItemEnds
           /\ Last(outcomes').state = "TimedOut"
           /\ Last(outcomes').item = i
           /\ inflight' = None
           /\ gets' \in {gets, 0}
           /\ ReportsFailure("Execution timed out after 10 minutes")]_vars

C3_Witness ==
    /\ pc = "thrown"
    /\ Last(outcomes).state = "TimedOut"
    /\ gets = 120
    /\ sleeps = 120

\* the message of the Error entry of an item that ended as o
FailureMessages(o) ==
    CASE o.state = "MalformedInput" ->
             {"Invalid JSON in Input Variables: " \o JSONErrorMessage(""),
              "Invalid JSON in Metadata: " \o JSONErrorMessage("")}
      [] o.state = "MissingExecutionId" ->
             {"Missing workflow_version_execution_id in response"}
      [] o.state = "Failed" ->
             {"Unexpected status code " \o ToString(o.poll.statusCode)}
      [] o.state = "TimedOut" -> {"Execution timed out after 10 minutes"}
      [] o.state = "TransportError" -> {TransportError.message}

\* C4: with continue-on-fail the run returns one entry per input item, in
\* item order: the Error entry of item j (message, pairedItem j) when item j
\* failed, the Success entry with item j's response body otherwise.
C4_OneEntryPerItem ==
    continueOnFail =>
        /\ pc # "thrown"
        /\ pc = "returned" =>
              /\ Len(output.main) = items
              /\ Len(outcomes) = items
              /\ \A j \in 0..(items - 1) :
                   LET o == outcomes[j + 1]
                       e == output.main[j + 1]
                   IN  /\ o.item = j
                       /\ IF o.state = "Completed"
                          THEN e = [json |-> [body |-> o.poll.body]]
                          ELSE /\ DOMAIN e = {"error", "json", "pairedItem"}
                               /\ e.error \in FailureMessages(o)
                               /\ e.pairedItem = [item |-> j]

C4_Witness ==
    /\ pc = "returned"
    /\ continueOnFail
    /\ items = 2
    /\ outcomes[1].state = "TimedOut"
    /\ outcomes[2].state = "Completed"
    /\ Len(output.main) = 2

\* C5: without continue-on-fail the first failing item k aborts the run: the
\* error raised carries k, nothing is requested after the failure and no
\* output list is returned.
C5_FirstFailureAborts ==
    (~continueOnFail /\ \E k \in 1..Len(outcomes) : outcomes[k].state # "Completed")
        => LET k == Len(outcomes)
           IN  /\ pc = "thrown"
               /\ \A m \in 1..(k - 1) : outcomes[m].state = "Completed"
               /\ outcomes[k].state # "Completed"
               /\ outcomes[k].item = k - 1
               /\ thrown # None
               /\ thrown.itemIndex = k - 1
               /\ i = k - 1
               /\ inflight = None
               /\ output = None

C5_Witness ==
    /\ pc = "thrown"
    /\ ~continueOnFail
    /\ Len(outcomes) = 2
    /\ Len(returnData) = 1
    /\ thrown.itemIndex = 1
    /\ output = None

\* C6: the body of every POST has input_variables and return_all_outputs
\* (false when returnAllOutputs is not set) and never has both
\* workflow_version_number and workflow_label_name.
C6_RequestBodyShape ==
    (inflight # None /\ inflight.method = "POST")
        => LET body == inflight.body
           IN  /\ "input_variables" \in DOMAIN body
               /\ "return_all_outputs" \in DOMAIN body
               /\ additionalFields.returnAllOutputs = Undefined
                     => body.return_all_outputs = Bool(FALSE)
               /\ ~({"workflow_version_number", "workflow_label_name"}
                       \subseteq DOMAIN body)

C6_Witness ==
    /\ inflight # None
    /\ inflight.method = "POST"
    /\ "workflow_label_name" \in DOMAIN inflight.body
    /\ "metadata" \in DOMAIN inflight.body
    /\ additionalFields.returnAllOutputs = Undefined

RECURSIVE ListingOptions(_)
\* the options of all agents of the pages l, in page order
ListingOptions(l) ==
    IF l = <<>> THEN <<>>
    ELSE [k \in 1..Len(l[1].items) |->
             [name |-> l[1].items[k].name, value |-> l[1].items[k].name]]
         \o ListingOptions(Tail(l))

\* C7: getWorkflows requests every page once, stops after the page with
\* has_next = false and returns the names of all pages in order.
C7_AllPagesOnceInOrder ==
    listPc # "idle" =>
        /\ \A a, b \in 1..Len(requested) : requested[a] = requested[b] => a = b
        /\ Len(requested) <= Len(listing)
        /\ \A k \in 1..Len(requested) : requested[k] = listing[k].num
        /\ listPc = "while" => (hasNext <=> Len(requested) < Len(listing))
        /\ listPc = "returned" =>
              /\ Len(requested) = Len(listing)
              /\ listReturnData = ListingOptions(listing)

C7_Witness ==
    /\ listPc = "returned"
    /\ Len(listing) = 3
    /\ listing[2].num = 3
    /\ listing[2].next_num # Null
    /\ Len(listReturnData) = 5

\* the metadata field holds a text
MetadataProvided(fields) ==
    fields.metadata # Undefined /\ fields.metadata # Str("")

\* C8: an item whose inputVariables, or whose provided metadata, is not valid
\* JSON fails with an error naming the field and the item, and no request is
\* issued for it; with continue-on-fail the next item is processed.
C8_MalformedInput ==
    [][(pc = "build"
          /\ \/ ~JSONValid(params.inputVariables)
             \/ /\ MetadataProvided(params.additionalFields)
                /\ ~JSONValid(params.additionalFields.metadata.v))
        => /\ ItemEnds
           /\ Last(outcomes').state = "MalformedInput"
           /\ Last(outcomes').item = i
           /\ inflight' = None
           /\ posts' = 0
           /\ gets' = 0
           /\ ReportsFailure(
                  "Invalid JSON in "
                  \o (IF ~JSONValid(params.inputVariables)
                      THEN "Input Variables" ELSE "Metadata")
                  \o ": " \o JSONErrorMessage(""))]_vars

C8_Witness ==
    /\ pc = "forLoop"
    /\ continueOnFail
    /\ i = 1
    /\ outcomes[1].state = "MalformedInput"
    /\ returnData[1].error = "Invalid JSON in Metadata: " \o JSONErrorMessage("")
    /\ posts = 0

\* a POST response was received for the current item and carries an id
HasExecutionId(r) ==
    r # None /\ r.workflow_version_execution_id # Undefined

\* C9: a POST response without workflow_version_execution_id fails the item
\* (MissingExecutionId, item index) with no GET and no second POST; a GET is
\* only issued for an item whose POST returned an execution id.
C9_MissingExecutionId ==
    [][/\ (pc = "awaitPost" /\ ItemEnds /\ Last(outcomes').post # None
              /\ ~HasExecutionId(Last(outcomes').post))
          => /\ Last(outcomes').state = "MissingExecutionId"
             /\ Last(outcomes').item = i
             /\ inflight' = None
             /\ posts = 1
             /\ gets = 0
             /\ gets' = 0
             /\ ReportsFailure("Missing workflow_version_execution_id in response")
       /\ pc' \in {"whileLoop", "awaitGet", "sleep"}
          => /\ HasExecutionId(response')
             /\ posts' = 1
       /\ (inflight' # None /\ inflight'.method = "GET")
          => /\ HasExecutionId(response')
             /\ inflight'.item = i'
             /\ inflight'.qs.workflow_version_execution_id
                    = response'.workflow_version_execution_id
       /\ gets' > gets => pc' = "awaitGet"]_vars

C9_Witness ==
    /\ pc = "thrown"
    /\ Last(outcomes).state = "MissingExecutionId"
    /\ Last(outcomes).post.workflow_version_execution_id = Undefined
    /\ posts = 1
    /\ gets = 0

\* C10: items are processed one after the other: while item i is being
\* processed every earlier item has reached its outcome, item i has none,
\* and the only request or execution in flight is item i's.
C10_OneItemAtATime ==
    /\ Len(outcomes) \in {i, i + 1}
    /\ \A k \in 1..Len(outcomes) : outcomes[k].item = k - 1
    /\ pc \in {"build", "awaitPost", "whileLoop", "awaitGet", "sleep"}
          => Len(outcomes) = i
    /\ inflight # None => (inflight.item = i /\ Len(outcomes) = i)
    /\ execId # Undefined => pc \in {"whileLoop", "awaitGet", "sleep"}
    /\ posts <= 1

C10_Witness ==
    /\ pc = "awaitPost"
    /\ i = 1
    /\ inflight.item = 1
    /\ outcomes[1].state = "Completed"

\* C11: the status code of the poll response alone decides: every response
\* with status 200 completes the item, with the response body as result,
\* whatever its status message and body are.
C11_StatusCodeAloneDecides ==
    [][(pc = "awaitGet" /\ ReceivedPoll # None /\ ReceivedPoll.statusCode = 200)
        => /\ ItemEnds
           /\ Last(outcomes').state = "Completed"
           /\ Len(returnData') = Len(returnData) + 1
           /\ Last(returnData') = [body |-> ReceivedPoll.body]
           /\ thrown' = None]_vars

\* the version number the user chose for the item being built, as a set
\* (empty when the field holds no number)
ChosenVersion ==
    IF params.agentVersionNumber.t = "number"
    THEN {params.agentVersionNumber} ELSE {}

\* C12: the POST body carries the version selector whenever one is set:
\* workflow_version_number = n for every number n chosen without
\* useAgentLabel (n = 0 included), workflow_label_name = s for every label s
\* chosen with useAgentLabel, never the other field, and neither field when
\* no selector is set.
C12_SelectorCarried ==
    [][(pc = "build" /\ pc' = "awaitPost")
        => LET body == inflight'.body
               useLabel == params.useAgentLabel = Bool(TRUE)
               label == params.agentLabelName
           IN  /\ (~useLabel /\ ChosenVersion # {})
                  => /\ "workflow_version_number" \in DOMAIN body
                     /\ body.workflow_version_number \in ChosenVersion
                     /\ "workflow_label_name" \notin DOMAIN body
               /\ (useLabel /\ label # Str(""))
                  => /\ "workflow_label_name" \in DOMAIN body
                     /\ body.workflow_label_name = label
                     /\ "workflow_version_number" \notin DOMAIN body
               /\ (IF useLabel THEN label = Str("") ELSE ChosenVersion = {})
                  => /\ "workflow_version_number" \notin DOMAIN body
                     /\ "workflow_label_name" \notin DOMAIN body]_vars

\* C13 as stated: the page of every request after the first is the next_num
\* of the response before it.
C13_PageIsNextNum ==
    \A k \in 2..Len(requested) :
        ServerResponse(requested[k - 1]).next_num = Num(requested[k])

\* C13, amended: the page of every request after the first is the next_num
\* of the response before it when that response carries one, and the page
\* before plus one when it carries none.
C13_PageIsNextNumOrCounter ==
    \A k \in 2..Len(requested) :
        LET r == ServerResponse(requested[k - 1])
        IN  /\ r.has_next
            /\ IF r.next_num # Null
               THEN requested[k] = r.next_num.v
               ELSE requested[k] = requested[k - 1] + 1

C13_Witness ==
    /\ listPc = "returned"
    /\ Len(requested) = 3
    /\ listing[1].next_num = Num(3)
    /\ listing[2].next_num = Null
    /\ requested = <<1, 3, 4>>

\* the items an execution was submitted for and that ended
PolledOutcomes ==
    {k \in 1..Len(outcomes) :
        /\ outcomes[k].post # None
        /\ Truthy(outcomes[k].post.workflow_version_execution_id)}

\* C14: when every request returns, execute() ends (returns or raises);
\* every item that was submitted ends in exactly one of Completed, Failed
\* and TimedOut; and an item is never polled more often than its budget has
\* 5-second suspensions.
C14_Terminates ==
    /\ <>(pc \in {"returned", "thrown"})
    /\ \A j \in 0..(MaxItems - 1) :
         (pc = "whileLoop" /\ i = j)
             ~> (Len(outcomes) > j
                   /\ outcomes[j + 1].item = j
                   /\ outcomes[j + 1].state \in {"Completed", "Failed", "TimedOut"})
    /\ [][/\ \A k \in PolledOutcomes' :
               /\ outcomes'[k].state \in {"Completed", "Failed", "TimedOut"}
               /\ outcomes'[k].item = k - 1
          /\ pc' = "awaitGet" => (gets' - 1) * SleepMs < timeoutMs']_vars

C14_Witness ==
    /\ pc = "returned"
    /\ items = 2
    /\ outcomes[1].state = "TimedOut"
    /\ outcomes[1].poll.statusCode = 202
    /\ outcomes[2].state = "Failed"

\* C15: in the RunAgent variant, the body of every POST contains
\* input_variables and return_all_outputs, and never contains both
\* workflow_version_number and workflow_label_name.
C15_RunAgentBodyShape ==
    [][(pc = "build" /\ pc' = "awaitPost")
        => LET body == inflight'.body
           IN  /\ "input_variables" \in DOMAIN body
               /\ "return_all_outputs" \in DOMAIN body
               /\ ~({"workflow_version_number", "workflow_label_name"}
                       \subseteq DOMAIN body)]_vars


TypeOK ==
    /\ pc \in {"forLoop", "build", "awaitPost", "whileLoop", "awaitGet", "sleep",
               "returned", "thrown"}
    /\ i \in 0..items
    /\ Len(returnData) <= items

====
